---- MODULE Spec2Model ----
(***************************************************************************)
(* Product_Analysis.py: a linear pandas script.  It loads a product-sales  *)
(* table, fills missing values, derives revenue / profit / margin /        *)
(* turnover columns, ranks products, rolls categories up, draws three      *)
(* charts and prints a summary.  The state is the script's module-level    *)
(* names; there is one action per statement group, in program order.       *)
(*                                                                         *)
(* Numbers.  A pandas float cell is modelled as an exact rational or one   *)
(* of the IEEE specials NaN, +inf, -inf.  Binary rounding error of         *)
(* float64 is not modelled; the IEEE rules for the specials are.           *)
(***************************************************************************)
EXTENDS Integers, Sequences, FiniteSets, TLC

VARIABLES
    file,                  \* the rows of data/product-sales.csv (the input)
    copy_on_write,         \* does the installed pandas run in Copy-on-Write mode
    pc,                    \* position in the script
    df_raw,                \* line 17
    df,                    \* line 26
    top_revenue,           \* line 66
    bottom_profit,         \* line 70
    category_performance,  \* line 75
    err                    \* the exception that ended the run, or "none"

vars == <<file, copy_on_write, pc, df_raw, df, top_revenue, bottom_profit,
          category_performance, err>>

----------------------------------------------------------------------------
(* float64 values *)

Abs(n) == IF n < 0 THEN -n ELSE n

RECURSIVE GCD(_, _)
GCD(a, b) == IF b = 0 THEN a ELSE GCD(b, a % b)

NaN == [k |-> "nan", n |-> 0, d |-> 1]
PInf == [k |-> "inf", n |-> 1, d |-> 1]
NInf == [k |-> "inf", n |-> -1, d |-> 1]

\* the rational n/d (d # 0) in lowest terms with a positive denominator
Num(n, d) ==
    LET s == IF d < 0 THEN -1 ELSE 1
        g == GCD(Abs(n), Abs(d))
    IN  [k |-> "num", n |-> (s * n) \div g, d |-> (s * d) \div g]

F(n) == Num(n, 1)

IsNaN(a) == a.k = "nan"
IsNum(a) == a.k = "num"
IsInf(a) == a.k = "inf"
IsZero(a) == a.k = "num" /\ a.n = 0
Sign(a) == IF a.n > 0 THEN 1 ELSE IF a.n < 0 THEN -1 ELSE 0
InfOf(s) == IF s > 0 THEN PInf ELSE NInf

FAdd(a, b) ==
    IF IsNaN(a) \/ IsNaN(b) THEN NaN
    ELSE IF IsInf(a) /\ IsInf(b) THEN (IF a = b THEN a ELSE NaN)
    ELSE IF IsInf(a) THEN a
    ELSE IF IsInf(b) THEN b
    ELSE Num(a.n * b.d + b.n * a.d, a.d * b.d)

FNeg(a) == IF IsNaN(a) THEN NaN ELSE [a EXCEPT !.n = -a.n]

FSub(a, b) == FAdd(a, FNeg(b))

FMul(a, b) ==
    IF IsNaN(a) \/ IsNaN(b) THEN NaN
    ELSE IF IsInf(a) \/ IsInf(b)
         THEN (IF Sign(a) * Sign(b) = 0 THEN NaN ELSE InfOf(Sign(a) * Sign(b)))
    ELSE Num(a.n * b.n, a.d * b.d)

\* IEEE division; the divisors of this program are never negative zero
FDiv(a, b) ==
    IF IsNaN(a) \/ IsNaN(b) THEN NaN
    ELSE IF IsInf(a) THEN (IF IsInf(b) THEN NaN
                           ELSE InfOf(Sign(a) * (IF Sign(b) < 0 THEN -1 ELSE 1)))
    ELSE IF IsInf(b) THEN F(0)
    ELSE IF b.n = 0 THEN (IF a.n = 0 THEN NaN ELSE InfOf(Sign(a)))
    ELSE Num(a.n * b.d, a.d * b.n)

\* a < b; every comparison with NaN is false
FLt(a, b) ==
    IF IsNaN(a) \/ IsNaN(b) THEN FALSE
    ELSE IF IsInf(a) THEN (a = NInf /\ b # NInf)
    ELSE IF IsInf(b) THEN b = PInf
    ELSE a.n * b.d < b.n * a.d

\* DataFrame.round(2): to the nearest multiple of 1/100, halves to even
Round2(a) ==
    IF ~IsNum(a) THEN a
    ELSE LET y == 100 * a.n
             q == y \div a.d
             r == y - q * a.d
             up == 2 * r > a.d \/ (2 * r = a.d /\ q % 2 = 1)
         IN  Num(IF up THEN q + 1 ELSE q, 100)

----------------------------------------------------------------------------
(* The input file.  A row of the file carries the Product ID as the text   *)
(* written in the file and the other columns by value; NA is an empty      *)
(* Category field, NaN an empty numeric field.                             *)

NA == "NaN"

TopN == 10        \* .head(10)
MaxRows == 3      \* longest table built from RowKinds
MaxExtra == 1     \* a ranking table has TopN + 1 .. TopN + MaxExtra rows

FileRow(pid, cat, u, p, c, r, inv) ==
    [ProductID |-> pid, Category |-> cat, UnitsSold |-> u, UnitPrice |-> p,
     CostPerUnit |-> c, CustomerRating |-> r, Inventory |-> inv]

RowKinds ==
    { FileRow(<<"P", "1">>, "A", F(2), F(3), F(1), F(4), F(4)),
      FileRow(<<"0", "7">>, "B", F(0), F(3), F(1), F(5), F(0)),
      FileRow(<<"7">>,      "A", F(1), F(0), F(1), F(3), F(0)),
      FileRow(<<"1", "0">>, NA,  NaN,  F(2), F(1), NaN,  F(2)),
      FileRow(<<"P", "2">>, "B", F(3), F(2), F(2), F(4), F(1)) }

ShortFiles == UNION { [1..n -> RowKinds] : n \in 0..MaxRows }

\* n rows selling 1, 2, .., n units, except that row k sells as many as row j
RankingFile(n, j, k) ==
    [i \in 1..n |->
        FileRow(<<"P", "1">>, IF i % 2 = 1 THEN "A" ELSE "B",
                F(IF i = k THEN j ELSE i), F(2), F(1), F(4), F(1))]

RankingFiles ==
    { RankingFile(n, j, k) :
        n \in (TopN + 1)..(TopN + MaxExtra), j \in 1..(TopN + MaxExtra),
        k \in 1..(TopN + MaxExtra) }

Files == ShortFiles \cup RankingFiles

----------------------------------------------------------------------------
(* pd.read_csv and astype('string') on the Product ID column *)

Digits == {"0", "1", "2", "3", "4", "5", "6", "7", "8", "9"}
DigitChar == <<"0", "1", "2", "3", "4", "5", "6", "7", "8", "9">>
DigitVal(c) == (CHOOSE i \in 1..10 : DigitChar[i] = c) - 1

IsIntText(t) == Len(t) > 0 /\ \A i \in 1..Len(t) : t[i] \in Digits

RECURSIVE ParseInt(_)
ParseInt(t) ==
    IF Len(t) = 0 THEN 0
    ELSE 10 * ParseInt(SubSeq(t, 1, Len(t) - 1)) + DigitVal(t[Len(t)])

RECURSIVE FormatInt(_)
FormatInt(n) ==
    IF n < 10 THEN <<DigitChar[n + 1]>>
    ELSE Append(FormatInt(n \div 10), DigitChar[(n % 10) + 1])

IntCell(n) == [t |-> "int64", i |-> n, s |-> <<>>]
StrCell(t) == [t |-> "str", i |-> 0, s |-> t]

\* read_csv infers one dtype per column: int64 when every field of the column
\* parses as an integer, object (the fields' own text) otherwise.  The row
\* label idx is the RangeIndex 0, 1, ...
ReadCsv(f) ==
    LET numeric == \A i \in 1..Len(f) : IsIntText(f[i].ProductID)
    IN  [i \in 1..Len(f) |->
            [idx |-> i - 1,
             ProductID |-> IF numeric THEN IntCell(ParseInt(f[i].ProductID))
                                      ELSE StrCell(f[i].ProductID),
             Category |-> f[i].Category,
             UnitsSold |-> f[i].UnitsSold,
             UnitPrice |-> f[i].UnitPrice,
             CostPerUnit |-> f[i].CostPerUnit,
             CustomerRating |-> f[i].CustomerRating,
             Inventory |-> f[i].Inventory]]

AsString(cell) == IF cell.t = "int64" THEN StrCell(FormatInt(cell.i)) ELSE cell

----------------------------------------------------------------------------
(* Series.median and fillna(..., inplace=True) on a column selection *)

RECURSIVE Insert(_, _)
Insert(s, x) ==
    IF Len(s) = 0 THEN <<x>>
    ELSE IF FLt(x, s[Len(s)]) THEN Append(Insert(SubSeq(s, 1, Len(s) - 1), x), s[Len(s)])
    ELSE Append(s, x)

RECURSIVE Sorted(_)
Sorted(s) == IF Len(s) = 0 THEN <<>> ELSE Insert(Sorted(SubSeq(s, 1, Len(s) - 1)), s[Len(s)])

Column(table, col) == [i \in 1..Len(table) |-> table[i][col]]

NotNaN(a) == ~IsNaN(a)

\* median(skipna=True): NaN when no value is present
Median(values) ==
    LET v == Sorted(SelectSeq(values, NotNaN))
        n == Len(v)
    IN  IF n = 0 THEN NaN
        ELSE IF n % 2 = 1 THEN v[(n + 1) \div 2]
        ELSE FDiv(FAdd(v[n \div 2], v[(n \div 2) + 1]), F(2))

\* isna: Category is the one text column that is filled
IsMissing(col, x) == IF col = "Category" THEN x = NA ELSE IsNaN(x)

\* df[col].fillna(value, inplace=True).  df[col] is an intermediate Series.
\* Without Copy-on-Write it shares the frame's data and the fill reaches df;
\* with Copy-on-Write (the only mode from pandas 3.0 on) the intermediate
\* behaves as a copy and df is left as it was.  The script pins no pandas
\* version, so both are outcomes of running it.
FillNa(table, col, value) ==
    IF copy_on_write THEN table
    ELSE [i \in 1..Len(table) |->
            IF IsMissing(col, table[i][col]) THEN [table[i] EXCEPT ![col] = value]
            ELSE table[i]]

----------------------------------------------------------------------------
(* Derived columns, lines 42-45 *)

TotalRevenueOf(r) == FMul(r.UnitsSold, r.UnitPrice)

\* the subtraction's operands the wrong way round
TotalProfitOfSwapped(r) == FMul(r.UnitsSold, FSub(r.CostPerUnit, r.UnitPrice))

TotalProfitOf(r) == FMul(r.UnitsSold, FSub(r.UnitPrice, r.CostPerUnit))

ProfitMarginOf(profit, revenue) == FMul(FDiv(profit, revenue), F(100))

InventoryTurnoverOf(r) == FDiv(r.UnitsSold, r.Inventory)

WithMetrics(r) ==
    LET revenue == TotalRevenueOf(r)
        profit == TotalProfitOf(r)
    IN  r @@ [TotalRevenue |-> revenue,
              TotalProfit |-> profit,
              ProfitMargin |-> ProfitMarginOf(profit, revenue),
              InventoryTurnover |-> InventoryTurnoverOf(r)]

----------------------------------------------------------------------------
(* sort_values(key, ascending).head(10) *)

RECURSIVE PermSeqs(_, _)
\* the rows table[i], i \in I, in every order
PermSeqs(table, I) ==
    IF I = {} THEN {<<>>}
    ELSE UNION { { <<table[i]>> \o p : p \in PermSeqs(table, I \ {i}) } : i \in I }

RECURSIVE TieOrders(_, _, _, _)
\* the rows whose key is in K, by key; rows of equal key in every order
TieOrders(table, key, ascending, K) ==
    IF K = {} THEN {<<>>}
    ELSE LET first == CHOOSE x \in K : \A y \in K :
                          IF ascending THEN ~FLt(y, x) ELSE ~FLt(x, y)
             group == { i \in 1..Len(table) : table[i][key] = first }
         IN  { p \o rest : p \in PermSeqs(table, group),
                           rest \in TieOrders(table, key, ascending, K \ {first}) }

\* sort_values with the default kind='quicksort', which pandas documents as not
\* stable: rows are ordered by key, rows of equal key come in an order the
\* sort does not fix.  The default na_position='last' puts the rows with a NaN
\* key after the others, in table order.  The result is a new frame.
SortValues(table, key, ascending) ==
    LET KeyIsNaN(r) == IsNaN(r[key])
        keys == { table[i][key] : i \in 1..Len(table) } \ {NaN}
    IN  { s \o SelectSeq(table, KeyIsNaN) : s \in TieOrders(table, key, ascending, keys) }

HeadN(s) == SubSeq(s, 1, IF Len(s) < TopN THEN Len(s) ELSE TopN)

----------------------------------------------------------------------------
(* groupby('Category').agg(...).sort_values('Total_Revenue', ascending=False).round(2) *)

\* group keys come out in sorted order
CategoryOrder == <<"A", "B", "Unknown">>

RECURSIVE SumSkipNa(_)
\* sum(skipna=True): 0 for no value
SumSkipNa(values) ==
    IF Len(values) = 0 THEN F(0)
    ELSE LET rest == SumSkipNa(Tail(values))
         IN  IF IsNaN(Head(values)) THEN rest ELSE FAdd(Head(values), rest)

\* mean(skipna=True): NaN for no value
Mean(values) ==
    LET present == SelectSeq(values, NotNaN)
    IN  IF Len(present) = 0 THEN NaN ELSE FDiv(SumSkipNa(present), F(Len(present)))

\* groupby drops the rows whose key is missing (dropna=True)
GroupByCategory(table) ==
    LET Present(c) == \E i \in 1..Len(table) : table[i].Category = c
        keys == SelectSeq(CategoryOrder, Present)
    IN  [g \in 1..Len(keys) |->
            LET InGroup(r) == r.Category = keys[g]
                rows == SelectSeq(table, InGroup)
            IN  [Category |-> keys[g],
                 Total_Revenue |-> SumSkipNa(Column(rows, "TotalRevenue")),
                 Total_Profit |-> SumSkipNa(Column(rows, "TotalProfit")),
                 Avg_Rating |-> Mean(Column(rows, "CustomerRating"))]]

RoundRow(g) ==
    [g EXCEPT !.Total_Revenue = Round2(@), !.Total_Profit = Round2(@),
              !.Avg_Rating = Round2(@)]

RoundFrame(t) == [i \in 1..Len(t) |-> RoundRow(t[i])]

----------------------------------------------------------------------------
(* The script, statement by statement *)

Init ==
    /\ file \in Files
    /\ copy_on_write \in BOOLEAN
    /\ pc = "load"
    /\ df_raw = <<>>
    /\ df = <<>>
    /\ top_revenue = <<>>
    /\ bottom_profit = <<>>
    /\ category_performance = <<>>
    /\ err = "none"

\* line 17
Load ==
    /\ pc = "load"
    /\ df_raw' = ReadCsv(file)
    /\ pc' = "copy"
    /\ UNCHANGED <<file, copy_on_write, df, top_revenue, bottom_profit,
                   category_performance, err>>

\* line 26: copy() is a deep copy
Copy ==
    /\ pc = "copy"
    /\ df' = df_raw
    /\ pc' = "fill_numeric"
    /\ UNCHANGED <<file, copy_on_write, df_raw, top_revenue, bottom_profit,
                   category_performance, err>>

FillColumn(table, col) == FillNa(table, col, Median(Column(table, col)))

\* lines 30-32
FillNumeric ==
    /\ pc = "fill_numeric"
    /\ df' = FillColumn(FillColumn(df, "UnitsSold"), "CustomerRating")
    /\ pc' = "fill_category"
    /\ UNCHANGED <<file, copy_on_write, df_raw, top_revenue, bottom_profit,
                   category_performance, err>>

\* line 35
FillCategory ==
    /\ pc = "fill_category"
    /\ df' = FillNa(df, "Category", "Unknown")
    /\ pc' = "astype"
    /\ UNCHANGED <<file, copy_on_write, df_raw, top_revenue, bottom_profit,
                   category_performance, err>>

\* line 39
AsType ==
    /\ pc = "astype"
    /\ df' = [i \in 1..Len(df) |-> [df[i] EXCEPT !.ProductID = AsString(@)]]
    /\ pc' = "metrics"
    /\ UNCHANGED <<file, copy_on_write, df_raw, top_revenue, bottom_profit,
                   category_performance, err>>

\* lines 42-45
DeriveMetrics ==
    /\ pc = "metrics"
    /\ df' = [i \in 1..Len(df) |-> WithMetrics(df[i])]
    /\ pc' = "describe"
    /\ UNCHANGED <<file, copy_on_write, df_raw, top_revenue, bottom_profit,
                   category_performance, err>>

\* lines 47-62: info(), head(), describe().round(2) are printed, nothing is kept
Describe ==
    /\ pc = "describe"
    /\ pc' = "top_revenue"
    /\ UNCHANGED <<file, copy_on_write, df_raw, df, top_revenue, bottom_profit,
                   category_performance, err>>

\* ascending=False left out
TopRevenueAscending ==
    /\ pc = "top_revenue"
    /\ \E s \in SortValues(df, "TotalRevenue", TRUE) : top_revenue' = HeadN(s)
    /\ pc' = "bottom_profit"
    /\ UNCHANGED <<file, copy_on_write, df_raw, df, bottom_profit,
                   category_performance, err>>

\* the frame sorted in place and then sliced
TopRevenueInPlace ==
    /\ pc = "top_revenue"
    /\ \E s \in SortValues(df, "TotalRevenue", FALSE) :
           df' = s /\ top_revenue' = HeadN(s)
    /\ pc' = "bottom_profit"
    /\ UNCHANGED <<file, copy_on_write, df_raw, bottom_profit,
                   category_performance, err>>

\* lines 66-67
TopRevenue ==
    /\ pc = "top_revenue"
    /\ \E s \in SortValues(df, "TotalRevenue", FALSE) : top_revenue' = HeadN(s)
    /\ pc' = "bottom_profit"
    /\ UNCHANGED <<file, copy_on_write, df_raw, df, bottom_profit,
                   category_performance, err>>

\* lines 70-71
BottomProfit ==
    /\ pc = "bottom_profit"
    /\ \E s \in SortValues(df, "TotalProfit", TRUE) : bottom_profit' = HeadN(s)
    /\ pc' = "rollup"
    /\ UNCHANGED <<file, copy_on_write, df_raw, df, top_revenue,
                   category_performance, err>>

\* lines 75-80
CategoryPerformance ==
    /\ pc = "rollup"
    /\ \E s \in SortValues(GroupByCategory(df), "Total_Revenue", FALSE) :
           category_performance' = RoundFrame(s)
    /\ pc' = "bar"
    /\ UNCHANGED <<file, copy_on_write, df_raw, df, top_revenue, bottom_profit, err>>

\* lines 91-99: the chart is built from category_performance and shown
BarChart ==
    /\ pc = "bar"
    /\ pc' = "scatter"
    /\ UNCHANGED <<file, copy_on_write, df_raw, df, top_revenue, bottom_profit,
                   category_performance, err>>

\* lines 103-113: the chart is built from df and shown
ScatterChart ==
    /\ pc = "scatter"
    /\ pc' = "sunburst"
    /\ UNCHANGED <<file, copy_on_write, df_raw, df, top_revenue, bottom_profit,
                   category_performance, err>>

\* lines 117-123: the chart is built from df and shown
SunburstChart ==
    /\ pc = "sunburst"
    /\ pc' = "summary"
    /\ UNCHANGED <<file, copy_on_write, df_raw, df, top_revenue, bottom_profit,
                   category_performance, err>>

\* lines 136-161: iloc[0] on a frame without rows raises IndexError
Summary ==
    /\ pc = "summary"
    /\ IF Len(category_performance) = 0 \/ Len(top_revenue) = 0 \/ Len(bottom_profit) = 0
       THEN pc' = "failed" /\ err' = "IndexError"
       ELSE pc' = "done" /\ err' = "none"
    /\ UNCHANGED <<file, copy_on_write, df_raw, df, top_revenue, bottom_profit,
                   category_performance>>

Next ==
    \/ Load
    \/ Copy
    \/ FillNumeric
    \/ FillCategory
    \/ AsType
    \/ DeriveMetrics
    \/ Describe
    \/ TopRevenue
    \/ BottomProfit
    \/ CategoryPerformance
    \/ BarChart
    \/ ScatterChart
    \/ SunburstChart
    \/ Summary

Spec == Init /\ [][Next]_vars

----------------------------------------------------------------------------
(* Where the run is *)

AfterLoad == pc # "load"

AfterFillNumeric == pc \notin {"load", "copy", "fill_numeric"}

AfterAsType == pc \notin {"load", "copy", "fill_numeric", "fill_category", "astype"}

Enriched == AfterAsType /\ pc # "metrics"

AfterTopRevenue == Enriched /\ pc \notin {"describe", "top_revenue"}

AfterBottomProfit == AfterTopRevenue /\ pc # "bottom_profit"

AfterRollup == AfterBottomProfit /\ pc # "rollup"

Rows(t) == { t[i] : i \in 1..Len(t) }

----------------------------------------------------------------------------
(* C1.  In the enriched table, for every row with a numeric Units Sold,    *)
(* Unit Price and Cost Per Unit, Profit Margin (%) is NaN exactly when     *)
(* Total Revenue is 0, and is 100 x Total Profit / Total Revenue when      *)
(* Total Revenue is not 0.                                                 *)
C1_MarginNaNIffZeroRevenue ==
    Enriched =>
        \A i \in 1..Len(df) :
            (IsNum(df[i].UnitsSold) /\ IsNum(df[i].UnitPrice) /\ IsNum(df[i].CostPerUnit)) =>
                /\ IsNaN(df[i].ProfitMargin) <=> IsZero(df[i].TotalRevenue)
                /\ ~IsZero(df[i].TotalRevenue) =>
                       df[i].ProfitMargin =
                           FMul(F(100), FDiv(df[i].TotalProfit, df[i].TotalRevenue))

(* C2.  In the enriched table, a row whose Inventory is 0 has Inventory    *)
(* Turnover NaN, whatever its Units Sold; a row whose Inventory is not 0   *)
(* has Inventory Turnover = Units Sold / Inventory; no error is raised.    *)
C2_TurnoverNaNOnZeroInventory ==
    Enriched =>
        \A i \in 1..Len(df) :
            /\ IsZero(df[i].Inventory) => IsNaN(df[i].InventoryTurnover)
            /\ ~IsZero(df[i].Inventory) =>
                   df[i].InventoryTurnover = FDiv(df[i].UnitsSold, df[i].Inventory)
            /\ pc = "describe" => err = "none"

(* C3.  After the missing-value step, Units Sold and Customer Rating hold  *)
(* no missing value; an entry that was missing holds the median of the     *)
(* column's entries that were not; an entry that was not missing is        *)
(* unchanged.                                                              *)
C3_NumericColumnsFilled ==
    AfterFillNumeric =>
        \A col \in {"UnitsSold", "CustomerRating"} : \A i \in 1..Len(df) :
            /\ ~IsNaN(df[i][col])
            /\ IsNaN(df_raw[i][col]) => df[i][col] = Median(Column(df_raw, col))
            /\ ~IsNaN(df_raw[i][col]) => df[i][col] = df_raw[i][col]

(* C4.  top_revenue has min(10, rows of the enriched table) rows, all of   *)
(* them rows of that table, in non-increasing Total Revenue order, and no  *)
(* row left out has a Total Revenue strictly greater than a row kept.      *)
C4_TopRevenueSlice ==
    AfterTopRevenue =>
        /\ Len(top_revenue) = (IF Len(df) < 10 THEN Len(df) ELSE 10)
        /\ Rows(top_revenue) \subseteq Rows(df)
        /\ Cardinality(Rows(top_revenue)) = Len(top_revenue)
        /\ \A p, q \in 1..Len(top_revenue) :
               p < q => ~FLt(top_revenue[p].TotalRevenue, top_revenue[q].TotalRevenue)
        /\ \A r \in Rows(df) \ Rows(top_revenue) : \A p \in 1..Len(top_revenue) :
               ~FLt(top_revenue[p].TotalRevenue, r.TotalRevenue)

\* a table longer than the slice, with a row left out that earns less than
\* every row kept
C4_Witness ==
    /\ AfterTopRevenue
    /\ Len(df) > 10
    /\ Len(top_revenue) = 10
    /\ \E r \in Rows(df) \ Rows(top_revenue) :
           FLt(r.TotalRevenue, top_revenue[10].TotalRevenue)

\* rows of equal key keep the table's order, and of the rows tied at the
\* cut-off the earlier ones are kept
StableSlice(slice, table, key) ==
    /\ \A p, q \in 1..Len(slice) :
           (p < q /\ slice[p][key] = slice[q][key]) => slice[p].idx < slice[q].idx
    /\ \A r \in Rows(table) \ Rows(slice) : \A p \in 1..Len(slice) :
           slice[p][key] = r[key] => slice[p].idx < r.idx

(* C5.  Both rankings are stable: rows with equal sort keys appear in the  *)
(* order they have in the enriched table, and when a tie straddles the     *)
(* cut-off at 10 the earlier rows of the table are the ones kept.          *)
C5_RankingsStable ==
    /\ AfterTopRevenue => StableSlice(top_revenue, df, "TotalRevenue")
    /\ AfterBottomProfit => StableSlice(bottom_profit, df, "TotalProfit")

RawCategoryKey(i) == IF df_raw[i].Category = NA THEN "Unknown" ELSE df_raw[i].Category

(* C6.  category_performance has one row per distinct Category of the      *)
(* table, rows whose Category was missing in the input counting under the  *)
(* one key "Unknown"; and each row's Total_Revenue is the sum of Total     *)
(* Revenue over exactly the rows of that category.                         *)
C6_RollupPerCategory ==
    AfterRollup =>
        LET keys == { RawCategoryKey(i) : i \in 1..Len(df) }
            cp == category_performance
        IN  /\ Len(cp) = Cardinality(keys)
            /\ { cp[g].Category : g \in 1..Len(cp) } = keys
            /\ \A g \in 1..Len(cp) :
                   LET Member(r) == RawCategoryKey(r.idx + 1) = cp[g].Category
                   IN  cp[g].Total_Revenue =
                           SumSkipNa(Column(SelectSeq(df, Member), "TotalRevenue"))

(* C7.  On an input of zero rows the run ends without error or with an    *)
(* EmptyInput error; no later step fails with another error.               *)
C7_EmptyInputClassified ==
    Len(file) = 0 => err \in {"none", "EmptyInput"}

(* C8.  df_raw is never changed after it is loaded, and df is never        *)
(* changed once the derived metrics have been added.                       *)
C8_Frames ==
    [][ /\ AfterLoad => df_raw' = df_raw
        /\ Enriched => df' = df ]_vars

\* a finished run whose cleaning changed the copy and left the loaded table
\* as it was
C8_Witness ==
    /\ pc = "done"
    /\ df_raw = ReadCsv(file)
    /\ \E i \in 1..Len(df) : IsNaN(df_raw[i].UnitsSold) /\ IsNum(df[i].UnitsSold)
    /\ Rows(top_revenue) \subseteq Rows(df)

(* C9.  The Product ID of each row of the enriched table is the exact text *)
(* of that field in the input file.                                        *)
C9_ProductIdText ==
    AfterAsType =>
        \A i \in 1..Len(df) : df[i].ProductID = StrCell(file[i].ProductID)

(* C10.  In the enriched table Total Revenue = Units Sold x Unit Price and *)
(* Total Profit = Total Revenue - Units Sold x Cost Per Unit, with Units   *)
(* Sold the row's value after imputation; the table has the rows of the    *)
(* raw input, in the same order.                                           *)
C10_RevenueAndProfit ==
    Enriched =>
        /\ Len(df) = Len(df_raw)
        /\ \A i \in 1..Len(df) :
               /\ df[i].idx = df_raw[i].idx
               /\ df[i].UnitPrice = df_raw[i].UnitPrice
               /\ df[i].CostPerUnit = df_raw[i].CostPerUnit
               /\ df[i].Inventory = df_raw[i].Inventory
               /\ ~IsNaN(df_raw[i].UnitsSold) => df[i].UnitsSold = df_raw[i].UnitsSold
               /\ df[i].TotalRevenue = FMul(df[i].UnitsSold, df[i].UnitPrice)
               /\ df[i].TotalProfit =
                      FSub(df[i].TotalRevenue, FMul(df[i].UnitsSold, df[i].CostPerUnit))

\* a row whose Units Sold was missing and imputed earns the imputed units
\* times its price, at a profit
C10_Witness ==
    /\ Enriched
    /\ \E i \in 1..Len(df) :
           /\ IsNaN(df_raw[i].UnitsSold)
           /\ IsNum(df[i].UnitsSold)
           /\ FLt(F(0), df[i].TotalRevenue)
           /\ FLt(F(0), df[i].TotalProfit)
           /\ FLt(df[i].TotalProfit, df[i].TotalRevenue)

====
